---- MODULE Spec2Model ----
(***************************************************************************)
(* SENTINEL browser client (static/js/script.js): the chat orchestrator,   *)
(* the session manager, the dynamic chart slot and the dashboard chart     *)
(* slots, as a state machine over the single-threaded event loop.  Every   *)
(* action is one run-to-completion segment of a handler: from a user event *)
(* or a resolved await up to the next await or the end of the handler.     *)
(***************************************************************************)
EXTENDS Integers, Sequences, FiniteSets, TLC

\* ------------------------------------------------------------------------
\* Bounds of the model
\* ------------------------------------------------------------------------
MaxOps == 2
MaxRefresh == 2

\* ------------------------------------------------------------------------
\* Values
\* ------------------------------------------------------------------------
\* JavaScript null, for currentSession and for session_id in a request body
Null == "null"
\* value of the "New Investigation" option of the session select
Placeholder == ""
\* session ids the backend can hand out
SessionIds == {"s1", "s2"}
\* texts typed into the chat input or passed as a suggestion / quick query
Texts == {<< >>, <<" ">>, <<"a">>}
\* names the prompt() of createNewSession can return ("" stands for
\* an empty answer or a cancelled prompt, both falsy)
Names == {"", "n"}
\* session lists GET /chat/sessions can return
SessionLists == {<< >>, <<"s1">>, <<"s2", "s1">>}
\* message logs GET /chat/history/{id} can return
HistoryLogs ==
  {<< >>,
   <<[role |-> "user", content |-> <<"h">>],
     [role |-> "assistant", content |-> <<"r">>]>>}

\* chart_data of a chat response: absent, a well-formed spec, or a spec
\* without a labels array
NoChartData == [present |-> FALSE, hasLabels |-> FALSE, labels |-> << >>]
ChartDatas ==
  {NoChartData,
   [present |-> TRUE, hasLabels |-> TRUE, labels |-> <<"x", "y">>],
   [present |-> TRUE, hasLabels |-> FALSE, labels |-> << >>]}

\* a well-formed spec with more labels than the palette has colors
WideChartData ==
  [present |-> TRUE, hasLabels |-> TRUE,
   labels |-> <<"a", "b", "c", "d", "e", "f", "g">>]

\* outcomes of POST /chat: the fetch rejects (network), or an envelope
NoResult ==
  [network |-> FALSE, success |-> FALSE, session_id |-> Null,
   chart_data |-> NoChartData]
ChatResults ==
  {[network |-> TRUE, success |-> FALSE, session_id |-> Null,
    chart_data |-> NoChartData],
   NoResult}
  \cup {[network |-> FALSE, success |-> TRUE, session_id |-> s, chart_data |-> c] :
          s \in SessionIds \cup {Null}, c \in ChartDatas}

\* outcomes of the other endpoints
Outcomes == {"network", "backend_error", "success"}

\* ------------------------------------------------------------------------
\* String helpers
\* ------------------------------------------------------------------------
IsSpace(c) == c = " "

RECURSIVE TrimStart(_)
TrimStart(s) ==
  IF s # << >> /\ IsSpace(Head(s)) THEN TrimStart(Tail(s)) ELSE s

RECURSIVE TrimEnd(_)
TrimEnd(s) ==
  IF s # << >> /\ IsSpace(s[Len(s)])
    THEN TrimEnd(SubSeq(s, 1, Len(s) - 1))
    ELSE s

\* String.prototype.trim
TrimNone(s) == s
Trim(s) == TrimEnd(TrimStart(s))

\* truthiness of a JavaScript string
Truthy(s) == s # << >>

\* ------------------------------------------------------------------------
\* State
\* ------------------------------------------------------------------------
VARIABLES
  currentSession,   \* let currentSession: Null or a session id
  chatMessages,     \* children of #chatMessages, in document order
  turns,            \* one record per sendChatMessage call, in call order
  sessionSelect,    \* #sessionSelect: [options, value]
  listReqs,         \* loadSessions calls whose fetch is pending, by caller
  histories,        \* one record per loadSessionHistory call
  creates,          \* one record per createNewSession call that fetched
  quickTimers,      \* queries of pending quickAnalysis timeouts, in order
  activeScreen,     \* the screen whose nav item was clicked last
  screens,          \* ids of the .screen elements with class 'active'
  pageTitle,        \* text of #pageTitle
  searches,         \* one record per performSearch call, in call order
  searchResults,    \* .panel-body of #searchResults: [state, cards]
  reports,          \* one record per runFullReport call, in call order
  runBtn,           \* #runReportBtn: [disabled, label]
  reportStatus,     \* #reportStatus style.display
  reportResults,    \* #reportResults style.display
  reportContent,    \* #reportContent: the call whose report it shows, or 0
  dynamicChart,     \* let dynamicChart: 0 (null) or a chart instance
  chartPanel,       \* #chartPanel style.display
  charts,           \* every Chart instance constructed so far
  slotChart,        \* the dashboard chart globals, by variable name
  pending,          \* dashboard fetches in flight, by view
  refreshes,        \* number of navigation clicks so far
  findings,         \* #demoFindings, #catFindings and #temporalInsight
  freshSince        \* history: placeholder selected and nothing sent,
                    \* selected or created since

chatVars ==
  <<currentSession, chatMessages, turns, sessionSelect, listReqs, histories,
    creates, quickTimers, freshSince>>
chartVars == <<dynamicChart, chartPanel, charts>>
dashVars == <<slotChart, pending, refreshes, findings>>
navVars == <<activeScreen, screens, pageTitle>>
searchVars == <<searches, searchResults>>
reportVars == <<reports, runBtn, reportStatus, reportResults, reportContent>>
toolVars == <<searchVars, reportVars>>
vars == <<chatVars, chartVars, dashVars, navVars, toolVars>>

\* number of requests the user has caused so far: sends (armed
\* quick-analysis timers included), session selections, session creations,
\* searches and report runs
Ops ==
  Len(turns) + Len(quickTimers) + Len(histories) + Len(creates)
    + Len(searches) + Len(reports)

\* ------------------------------------------------------------------------
\* Transcript and chart helpers
\* ------------------------------------------------------------------------
\* A child of #chatMessages.  kind and turn tell the elements apart that the
\* page tells apart by their markup: a user message, the typing indicator
\* of a send, the reply or "Error:" / "Connection error:" bubble of a send,
\* a message of a fetched history, a system banner.
Entry(role, kind, turn, content) ==
  [role |-> role, kind |-> kind, turn |-> turn, content |-> content]

Banner == Entry("system", "banner", 0, << >>)

\* addMessageToChat(role, content): appends one element
AddMessageToChat(msgs, role, kind, turn, content) ==
  Append(msgs, Entry(role, kind, turn, content))

\* the typing indicator of sendChatMessage, appended after the user message
TypingDiv(t) == Entry("assistant", "typing", t, << >>)

\* typingDiv.remove(): detaches the indicator if it is still attached
RemoveTypingKeep(msgs, t) == msgs
RemoveTyping(msgs, t) == SelectSeq(msgs, LAMBDA e : e # TypingDiv(t))

\* chart.destroy()
Destroy(cs, i) ==
  [cs EXCEPT ![i].live = FALSE, ![i].destroys = @ + 1]

\* if (ref) ref.destroy()
DestroyIfSetSkip(cs, ref) == cs
DestroyIfSet(cs, ref) == IF ref # 0 THEN Destroy(cs, ref) ELSE cs

\* new Chart(ctx, ...) on the canvas with the given id
\* labels and backgroundColor are data.labels and the backgroundColor of the
\* dataset handed to the constructor
NewChartWith(cs, canvas, labels, backgroundColor) ==
  Append(cs, [canvas |-> canvas, live |-> TRUE, destroys |-> 0,
              labels |-> labels, backgroundColor |-> backgroundColor])

\* a chart of a dashboard slot, whose data plays no part
NewChart(cs, canvas) == NewChartWith(cs, canvas, << >>, << >>)

\* const colors of renderDynamicChart
colors ==
  <<"#00d4ff", "#ffb700", "#ff6b6b", "#00ff88", "#a855f7", "#ec4899">>

\* Array.prototype.slice(0, n)
Slice(seq, n) == SubSeq(seq, 1, IF n < Len(seq) THEN n ELSE Len(seq))

\* backgroundColor: colors.slice(0, chartData.labels.length)
BackgroundColor(labels) == Slice(colors, Len(labels))

\* the instances of cs that are attached to the canvas and not destroyed
LiveOn(cs, canvas) ==
  {i \in DOMAIN cs : cs[i].canvas = canvas /\ cs[i].live}

\* renderDynamicChart(chartData): the panel is shown, the bound instance is
\* destroyed, and the new instance is constructed and bound; evaluating
\* chartData.labels.length on a spec without labels throws before the
\* constructor runs.
RenderDynamicChart(chartData) ==
  LET destroyed == DestroyIfSet(charts, dynamicChart) IN
  IF chartData.hasLabels
    THEN [panel |-> "flex", threw |-> FALSE,
          charts |-> NewChartWith(destroyed, "dynamicChart", chartData.labels,
                                  BackgroundColor(chartData.labels)),
          dynamicChart |-> Len(destroyed) + 1]
    ELSE [panel |-> "flex", threw |-> TRUE,
          charts |-> destroyed,
          dynamicChart |-> dynamicChart]

\* ------------------------------------------------------------------------
\* Initial state: DOMContentLoaded has run; loadDashboard() and
\* loadSessions() have issued their fetches.
\* ------------------------------------------------------------------------
Views ==
  {"stats", "overview", "demographics", "geography", "categories", "temporal"}
DashSlots ==
  {"overviewChart", "genderChart", "casteChart", "incomeChart",
   "categoryChart", "temporalChart"}

InitOwner == [kind |-> "init", n |-> 0]

\* ids of the .screen elements, one per entry of pageNames
Screens ==
  {"dashboard", "chat", "search", "demographics", "geography", "categories",
   "temporal", "report"}

\* a data-screen value that is the id of no element
UnknownScreen == "archive"
ScreenIds == Screens \cup {UnknownScreen}

\* const pageNames of initNavigation
pageNames ==
  [s \in Screens |->
     CASE s = "dashboard" -> "Command Center"
       [] s = "chat" -> "AI Analysis"
       [] s = "search" -> "Case Search"
       [] s = "demographics" -> "Demographics"
       [] s = "geography" -> "Geographic Analysis"
       [] s = "categories" -> "Category Analysis"
       [] s = "temporal" -> "Temporal Analysis"
       [] s = "report" -> "Full Report"]

\* the screen part of the click handler: 'active' is removed from every
\* screen and added to the element with the id, if there is one
ActivateScreen(active, screenId) ==
  IF screenId \in Screens THEN {screenId} ELSE {}

\* the click handler of a nav item up to its call of loadScreenData
Navigate(screenId) ==
  /\ activeScreen' = screenId
  /\ screens' = ActivateScreen(screens, screenId)
  /\ pageTitle' =
       IF screenId \in DOMAIN pageNames THEN pageNames[screenId] ELSE screenId

\* the search panel and the report controls as the page is loaded
InitialPanel == [state |-> "initial", cards |-> << >>]
RunLabel == "RUN FULL INVESTIGATION"

Init ==
  /\ currentSession = Null
  /\ chatMessages = << >>
  /\ turns = << >>
  /\ sessionSelect = [options |-> <<Placeholder>>, value |-> Placeholder]
  /\ listReqs = {InitOwner}
  /\ histories = << >>
  /\ creates = << >>
  /\ quickTimers = << >>
  /\ activeScreen = "dashboard"
  /\ screens = {"dashboard"}
  /\ pageTitle = pageNames["dashboard"]
  /\ searches = << >>
  /\ searchResults = InitialPanel
  /\ reports = << >>
  /\ runBtn = [disabled |-> FALSE, label |-> RunLabel]
  /\ reportStatus = "none"
  /\ reportResults = "none"
  /\ reportContent = 0
  /\ dynamicChart = 0
  /\ chartPanel = "none"
  /\ charts = << >>
  /\ slotChart = [v \in DashSlots |-> 0]
  /\ pending = [v \in Views |-> IF v = "stats" THEN 1 ELSE 0]
  /\ refreshes = 0
  /\ findings = [demoFindings |-> << >>, catFindings |-> << >>,
                 temporalInsight |-> << >>]
  /\ freshSince = FALSE

\* ------------------------------------------------------------------------
\* Chat orchestrator
\* ------------------------------------------------------------------------
\* the body of POST /chat
RequestBodyNoSession(message) == [message |-> message, session_id |-> Null]
RequestBody(message) == [message |-> message, session_id |-> currentSession]

\* sendChatMessage(message) up to its first await: the user message and the
\* typing indicator are appended and POST /chat is issued with the current
\* session id.
SendChatMessage(message) ==
  /\ chatMessages' =
       Append(AddMessageToChat(chatMessages, "user", "message",
                               Len(turns) + 1, message),
              TypingDiv(Len(turns) + 1))
  /\ turns' =
       Append(turns,
              [message |-> RequestBody(message).message,
               session_id |-> RequestBody(message).session_id,
               pc |-> "fetch", result |-> NoResult, stale |-> FALSE,
               terminal |-> {}])
  /\ freshSince' = FALSE
  /\ UNCHANGED <<currentSession, sessionSelect, listReqs, histories, creates>>
  /\ UNCHANGED <<chartVars, dashVars>>

\* click on #sendBtn with the given text in #chatInput
ClickSend(text) ==
  IF Truthy(Trim(text))
    THEN /\ Ops < MaxOps
         /\ SendChatMessage(Trim(text))
         /\ UNCHANGED <<quickTimers, navVars, toolVars>>
    ELSE UNCHANGED vars

\* Enter (without Shift) in #chatInput
KeypressEnter(text) ==
  IF Truthy(Trim(text))
    THEN /\ Ops < MaxOps
         /\ SendChatMessage(Trim(text))
         /\ UNCHANGED <<quickTimers, navVars, toolVars>>
    ELSE UNCHANGED vars

\* sendSuggestion(query)
SendSuggestion(query) ==
  /\ Ops < MaxOps
  /\ SendChatMessage(query)
  /\ UNCHANGED <<quickTimers, navVars, toolVars>>

\* quickAnalysis(query): clicks the chat nav item and arms a 300 ms timer
QuickAnalysis(query) ==
  /\ Ops < MaxOps
  /\ Navigate("chat")
  /\ quickTimers' = Append(quickTimers, query)
  /\ UNCHANGED <<currentSession, chatMessages, turns, sessionSelect, listReqs,
                 histories, creates, freshSince>>
  /\ UNCHANGED <<chartVars, dashVars, toolVars>>

\* the timer of quickAnalysis fires
QuickTimer ==
  /\ quickTimers # << >>
  /\ SendChatMessage(Head(quickTimers))
  /\ quickTimers' = Tail(quickTimers)
  /\ UNCHANGED <<navVars, toolVars>>

\* the condition under which the response handler adopts the session id
ShouldAdoptAlways(result) == result.session_id # Null
ShouldAdopt(result) == result.session_id # Null /\ currentSession = Null

\* From addMessageToChat('assistant', result.data.response) to the end of
\* sendChatMessage: the reply, then the chart; a throw of renderDynamicChart
\* lands in the catch block, which appends a connection error.
FinishSuccess(t, result, msgs, ts) ==
  LET replied == AddMessageToChat(msgs, "assistant", "reply", t, << >>)
      r == RenderDynamicChart(result.chart_data)
      threw == result.chart_data.present /\ r.threw
  IN /\ IF result.chart_data.present
          THEN /\ dynamicChart' = r.dynamicChart
               /\ charts' = r.charts
               /\ chartPanel' = r.panel
          ELSE UNCHANGED chartVars
     /\ chatMessages' =
          IF threw
            THEN AddMessageToChat(RemoveTyping(replied, t), "assistant",
                                  "connection_error", t, << >>)
            ELSE replied
     /\ turns' =
          [ts EXCEPT ![t].pc = "done",
                     ![t].result = NoResult,
                     ![t].terminal =
                        IF threw THEN {"reply", "connection_error"}
                                 ELSE {"reply"}]

\* POST /chat of turn t resolves with result
ChatResponse(t, result) ==
  /\ turns[t].pc = "fetch"
  /\ LET arrived ==
           [turns EXCEPT ![t].stale = (turns[t].session_id # currentSession)]
         removed == RemoveTyping(chatMessages, t)
     IN
     IF result.network
       THEN /\ chatMessages' =
                 AddMessageToChat(removed, "assistant", "connection_error",
                                  t, << >>)
            /\ turns' = [arrived EXCEPT ![t].pc = "done",
                                        ![t].terminal = {"connection_error"}]
            /\ UNCHANGED <<currentSession, listReqs, chartVars>>
     ELSE IF ~result.success
       THEN /\ chatMessages' =
                 AddMessageToChat(removed, "assistant", "error", t, << >>)
            /\ turns' = [arrived EXCEPT ![t].pc = "done",
                                        ![t].terminal = {"error"}]
            /\ UNCHANGED <<currentSession, listReqs, chartVars>>
     ELSE IF ShouldAdopt(result)
       THEN /\ currentSession' = result.session_id
            /\ listReqs' = listReqs \cup {[kind |-> "send", n |-> t]}
            /\ chatMessages' = removed
            /\ turns' = [arrived EXCEPT ![t].pc = "loadSessions",
                                        ![t].result = result]
            /\ UNCHANGED chartVars
       ELSE /\ FinishSuccess(t, result, removed, arrived)
            /\ UNCHANGED <<currentSession, listReqs>>
  /\ UNCHANGED <<sessionSelect, histories, creates, quickTimers, freshSince,
                 navVars, toolVars, dashVars>>

\* click on #clearChatBtn
ClearChat ==
  /\ chatMessages' = <<Banner>>
  /\ UNCHANGED <<currentSession, turns, sessionSelect, listReqs, histories,
                 creates, quickTimers, freshSince, navVars, toolVars>>
  /\ UNCHANGED <<chartVars, dashVars>>

\* closeChart() on the panel, the global and the instances: the panel is
\* hidden, and the instance the global refers to is destroyed and the
\* global set to null
CloseChartKeepRef(panel, ref, cs) ==
  [panel |-> "none", dynamicChart |-> ref, charts |-> DestroyIfSet(cs, ref)]
CloseChartOn(panel, ref, cs) ==
  [panel |-> "none", dynamicChart |-> 0, charts |-> DestroyIfSet(cs, ref)]

\* closeChart()
CloseChart ==
  /\ LET closed == CloseChartOn(chartPanel, dynamicChart, charts) IN
       /\ chartPanel' = closed.panel
       /\ dynamicChart' = closed.dynamicChart
       /\ charts' = closed.charts
  /\ UNCHANGED <<chatVars, dashVars, navVars, toolVars>>

\* ------------------------------------------------------------------------
\* Session manager
\* ------------------------------------------------------------------------
Range(f) == {f[i] : i \in DOMAIN f}

\* loadSessions() after its fetch: on success the options are rebuilt, the
\* placeholder first; the select then shows its first option.
LoadedOptionsAppend(sel, list) ==
  [options |-> sel.options \o list, value |-> sel.value]
LoadedOptions(sel, list) ==
  [options |-> <<Placeholder>> \o list, value |-> Placeholder]

\* select.value = id: shows the option with that value, if there is one
SetSelectValue(sel, id) ==
  [sel EXCEPT !.value = IF id \in Range(sel.options) THEN id ELSE Placeholder]

\* loadSessionHistory(sessionId) on success: the transcript is emptied and
\* the fetched messages are appended in order
RenderHistoryKeep(msgs, log) ==
  msgs \o [i \in DOMAIN log |-> Entry(log[i].role, "history", 0, log[i].content)]
RenderHistory(msgs, log) ==
  [i \in DOMAIN log |-> Entry(log[i].role, "history", 0, log[i].content)]

\* GET /chat/sessions of a loadSessions() call resolves; the caller that
\* awaits the call (a send that adopted a session id, or createNewSession)
\* then runs to its end.
ListResponse(req, outcome, list) ==
  /\ req \in listReqs
  /\ listReqs' = listReqs \ {req}
  /\ LET sel == IF outcome = "success"
                  THEN LoadedOptions(sessionSelect, list)
                  ELSE sessionSelect
     IN
     CASE req.kind = "init" ->
            /\ sessionSelect' = sel
            /\ UNCHANGED <<chatMessages, turns, creates, chartVars>>
       [] req.kind = "send" ->
            /\ sessionSelect' = sel
            /\ FinishSuccess(req.n, turns[req.n].result, chatMessages, turns)
            /\ UNCHANGED creates
       [] req.kind = "create" ->
            /\ sessionSelect' = SetSelectValue(sel, currentSession)
            \* currentSession.slice(0, 8) throws on null: the banner is
            \* not written
            /\ chatMessages' =
                 IF currentSession = Null THEN chatMessages ELSE <<Banner>>
            /\ creates' = [creates EXCEPT ![req.n].pc = "done"]
            /\ UNCHANGED <<turns, chartVars>>
  /\ UNCHANGED <<currentSession, histories, quickTimers, freshSince,
                 navVars, toolVars, dashVars>>

\* change event of #sessionSelect: the user picks another option
SelectSession(id) ==
  /\ id \in Range(sessionSelect.options)
  /\ id # sessionSelect.value
  /\ sessionSelect' = [sessionSelect EXCEPT !.value = id]
  /\ IF id # Placeholder
       THEN /\ Ops < MaxOps
            /\ histories' =
                 Append(histories,
                        [sessionId |-> id, pc |-> "fetch", messages |-> << >>])
            /\ freshSince' = FALSE
            /\ UNCHANGED currentSession
       ELSE /\ currentSession' = Null
            /\ freshSince' = TRUE
            /\ UNCHANGED histories
  /\ UNCHANGED <<chatMessages, turns, listReqs, creates, quickTimers,
                 navVars, toolVars, chartVars, dashVars>>

\* if (result.success) of loadSessionHistory; a rejected fetch goes to the
\* catch block
HistorySuccessAlways(outcome) == TRUE
HistorySuccess(outcome) == outcome = "success"

\* GET /chat/history/{id} of call h resolves
HistoryResponse(h, outcome, log) ==
  /\ histories[h].pc = "fetch"
  /\ IF HistorySuccess(outcome)
       THEN /\ currentSession' = histories[h].sessionId
            /\ chatMessages' = RenderHistory(chatMessages, log)
            /\ histories' = [histories EXCEPT ![h].pc = "loaded",
                                              ![h].messages = log]
       ELSE /\ histories' = [histories EXCEPT ![h].pc = "failed"]
            /\ UNCHANGED <<currentSession, chatMessages>>
  /\ UNCHANGED <<turns, sessionSelect, listReqs, creates, quickTimers,
                 freshSince, navVars, toolVars, chartVars, dashVars>>

\* click on #newSessionBtn; name is the answer to the prompt
CreateNewSession(name) ==
  IF name = ""
    THEN UNCHANGED vars
    ELSE /\ Ops < MaxOps
         /\ creates' =
              Append(creates, [name |-> name, pc |-> "fetch",
                               session_id |-> Null, reported |-> "none"])
         /\ freshSince' = FALSE
         /\ UNCHANGED <<currentSession, chatMessages, turns, sessionSelect,
                        listReqs, histories, quickTimers, navVars, toolVars,
                        chartVars, dashVars>>

\* POST /chat/session/new of call c resolves.  session_id keeps the id the
\* backend returned; reported tells where the failure of the call went:
\* the catch block logs to the console, the envelope with success = false
\* has no branch.
CreateResponse(c, outcome, sid) ==
  /\ creates[c].pc = "fetch"
  /\ IF outcome = "success"
       THEN /\ currentSession' = sid
            /\ listReqs' = listReqs \cup {[kind |-> "create", n |-> c]}
            /\ creates' = [creates EXCEPT ![c].pc = "loadSessions",
                                          ![c].session_id = sid]
       ELSE /\ creates' =
                 [creates EXCEPT
                    ![c].pc = "failed",
                    ![c].reported =
                       IF outcome = "network" THEN "console" ELSE "none"]
            /\ UNCHANGED <<currentSession, listReqs>>
  /\ UNCHANGED <<chatMessages, turns, sessionSelect, histories, quickTimers,
                 freshSince, navVars, toolVars, chartVars, dashVars>>

\* ------------------------------------------------------------------------
\* Dashboard and analytics views
\* ------------------------------------------------------------------------
\* loadScreenData(screenId): the view whose fetch the screen issues
ScreenView(screenId) ==
  CASE screenId = "dashboard" -> "stats"
    [] screenId = "demographics" -> "demographics"
    [] screenId = "geography" -> "geography"
    [] screenId = "categories" -> "categories"
    [] screenId = "temporal" -> "temporal"
    [] OTHER -> "none"

\* fields of the payload of GET /demographic-silence
DemoFields == {"by_gender", "by_caste", "by_income"}

\* click on the nav item of a screen
NavClick(screenId) ==
  /\ Navigate(screenId)
  /\ IF ScreenView(screenId) # "none"
       THEN /\ refreshes < MaxRefresh
            /\ refreshes' = refreshes + 1
            /\ pending' = [pending EXCEPT ![ScreenView(screenId)] = @ + 1]
       ELSE UNCHANGED <<pending, refreshes>>
  /\ UNCHANGED <<chatVars, chartVars, slotChart, findings, toolVars>>

\* GET /stats of a loadDashboard() call resolves; on success the cards are
\* written and loadOverviewChart() issues its fetch
StatsResponse(outcome) ==
  /\ pending["stats"] > 0
  /\ pending' =
       IF outcome = "success"
         THEN [pending EXCEPT !["stats"] = @ - 1, !["overview"] = @ + 1]
         ELSE [pending EXCEPT !["stats"] = @ - 1]
  /\ UNCHANGED <<chatVars, chartVars, slotChart, refreshes, findings, navVars,
                 toolVars>>

\* The chart part of a view's handler, on the global named slot: the bound
\* instance is destroyed; the data is then read, which throws when the
\* payload lacks it; otherwise the new instance is constructed and bound.
RebindNoDestroy(st, slot, readable) ==
  IF st.threw \/ ~readable
    THEN [st EXCEPT !.threw = TRUE]
    ELSE [charts |-> NewChart(st.charts, slot),
          slotChart |-> [st.slotChart EXCEPT ![slot] = Len(st.charts) + 1],
          threw |-> FALSE]
Rebind(st, slot, readable) ==
  IF st.threw
    THEN st
    ELSE LET destroyed == DestroyIfSet(st.charts, st.slotChart[slot]) IN
         IF readable
           THEN [charts |-> NewChart(destroyed, slot),
                 slotChart |-> [st.slotChart EXCEPT ![slot] = Len(destroyed) + 1],
                 threw |-> FALSE]
           ELSE [charts |-> destroyed, slotChart |-> st.slotChart,
                 threw |-> TRUE]

DashState == [charts |-> charts, slotChart |-> slotChart, threw |-> FALSE]

\* createDemoChart(canvasId, data, type, chartRef, setChart), called with
\* the global of the slot read at the call
CreateDemoChart(st, slot, data) == Rebind(st, slot, data)

\* GET /demographic-silence of a loadOverviewChart() call resolves
OverviewResponse(outcome, fields) ==
  /\ pending["overview"] > 0
  /\ pending' = [pending EXCEPT !["overview"] = @ - 1]
  /\ IF outcome = "success"
       THEN LET st == Rebind(DashState, "overviewChart", "by_income" \in fields)
            IN charts' = st.charts /\ slotChart' = st.slotChart
       ELSE UNCHANGED <<charts, slotChart>>
  /\ UNCHANGED <<chatVars, dynamicChart, chartPanel, refreshes, findings,
                 navVars, toolVars>>

\* The payload of GET /demographic-silence as loadDemographics reads it:
\* for each group whether it is there, and which of the two categories of
\* its ratio finding it holds.
GenderKeys == {"F", "M"}
CasteKeys == {"SC", "General"}
IncomeKeys == {"0-3L", "10L+"}
Absent == [present |-> FALSE, keys |-> {}]
Group(keys) == [present |-> TRUE, keys |-> keys]
DemoPayloads ==
  [by_gender : {Absent, Group(GenderKeys), Group({"M"})},
   by_caste : {Absent, Group(CasteKeys), Group({"SC"})},
   by_income : {Absent, Group(IncomeKeys), Group({"10L+"})}]

\* the list items written to #demoFindings, in the order of the code
DemoFindingsOf(data) ==
  (IF GenderKeys \subseteq data.by_gender.keys THEN <<"gender">> ELSE << >>)
    \o (IF IncomeKeys \subseteq data.by_income.keys THEN <<"income">>
                                                     ELSE << >>)
    \o (IF CasteKeys \subseteq data.by_caste.keys THEN <<"caste">> ELSE << >>)

\* GET /demographic-silence of a loadDemographics() call resolves: the
\* gender, caste and income charts in this order; the income data is
\* filtered from by_income before its chart is touched; then the findings.
\* Reading a group that is not there throws, which ends the handler in its
\* catch block.
DemographicsResponse(outcome, data) ==
  /\ pending["demographics"] > 0
  /\ pending' = [pending EXCEPT !["demographics"] = @ - 1]
  /\ IF outcome = "success"
       THEN LET g == CreateDemoChart(DashState, "genderChart",
                                     data.by_gender.present)
                c == CreateDemoChart(g, "casteChart", data.by_caste.present)
                i == IF data.by_income.present
                       THEN CreateDemoChart(c, "incomeChart", TRUE)
                       ELSE [c EXCEPT !.threw = TRUE]
            IN /\ charts' = i.charts
               /\ slotChart' = i.slotChart
               /\ findings' =
                    IF i.threw
                      THEN findings
                      ELSE [findings EXCEPT
                              !.demoFindings = DemoFindingsOf(data)]
       ELSE UNCHANGED <<charts, slotChart, findings>>
  /\ UNCHANGED <<chatVars, dynamicChart, chartPanel, refreshes, navVars,
                 toolVars>>

\* GET /geographic-silence of a loadGeography() call resolves
GeographyResponse(outcome) ==
  /\ pending["geography"] > 0
  /\ pending' = [pending EXCEPT !["geography"] = @ - 1]
  /\ UNCHANGED <<chatVars, chartVars, slotChart, refreshes, findings, navVars,
                 toolVars>>

\* result.data of GET /complaint-types: isArray tells whether it can be
\* mapped; the lists are in the order of the response
CategoryLists ==
  {<< >>,
   <<[category |-> "roads", silenced_pct |-> 40]>>,
   <<[category |-> "water", silenced_pct |-> 10],
     [category |-> "roads", silenced_pct |-> 40]>>,
   <<[category |-> "roads", silenced_pct |-> 40],
     [category |-> "water", silenced_pct |-> 10]>>}
NoList == [isArray |-> FALSE, items |-> << >>]
CategoryPayloads ==
  {NoList} \cup {[isArray |-> TRUE, items |-> l] : l \in CategoryLists}

\* const most, least of loadCategories
MostLeastSorted(categories) ==
  [most |-> CHOOSE c \in Range(categories) :
              \A d \in Range(categories) : d.silenced_pct <= c.silenced_pct,
   least |-> CHOOSE c \in Range(categories) :
               \A d \in Range(categories) : c.silenced_pct <= d.silenced_pct]
MostLeast(categories) ==
  [most |-> categories[1], least |-> categories[Len(categories)]]

\* GET /complaint-types of a loadCategories() call resolves: the chart, then
\* the findings; most.category throws on an empty list
CategoriesResponse(outcome, payload) ==
  /\ pending["categories"] > 0
  /\ pending' = [pending EXCEPT !["categories"] = @ - 1]
  /\ IF outcome = "success"
       THEN LET st == Rebind(DashState, "categoryChart", payload.isArray)
            IN /\ charts' = st.charts
               /\ slotChart' = st.slotChart
               /\ findings' =
                    IF st.threw \/ payload.items = << >>
                      THEN findings
                      ELSE [findings EXCEPT
                              !.catFindings = <<MostLeast(payload.items)>>]
       ELSE UNCHANGED <<charts, slotChart, findings>>
  /\ UNCHANGED <<chatVars, dynamicChart, chartPanel, refreshes, navVars,
                 toolVars>>

\* result.data of GET /temporal-decay
BucketLists ==
  {<< >>,
   <<[time_bucket |-> "0-30", silenced_pct |-> 10]>>,
   <<[time_bucket |-> "0-30", silenced_pct |-> 10],
     [time_bucket |-> "90+", silenced_pct |-> 40]>>}
TemporalPayloads ==
  {NoList} \cup {[isArray |-> TRUE, items |-> l] : l \in BucketLists}

\* GET /temporal-decay of a loadTemporal() call resolves: the chart, then
\* the insight when there is a bucket
TemporalResponse(outcome, payload) ==
  /\ pending["temporal"] > 0
  /\ pending' = [pending EXCEPT !["temporal"] = @ - 1]
  /\ IF outcome = "success"
       THEN LET st == Rebind(DashState, "temporalChart", payload.isArray)
            IN /\ charts' = st.charts
               /\ slotChart' = st.slotChart
               /\ findings' =
                    IF st.threw \/ payload.items = << >>
                      THEN findings
                      ELSE [findings EXCEPT
                              !.temporalInsight =
                                 <<[first |-> payload.items[1],
                                    last |->
                                      payload.items[Len(payload.items)]]>>]
       ELSE UNCHANGED <<charts, slotChart, findings>>
  /\ UNCHANGED <<chatVars, dynamicChart, chartPanel, refreshes, navVars,
                 toolVars>>

\* ------------------------------------------------------------------------
\* Search controller
\* ------------------------------------------------------------------------
\* top_k and the threshold of the "silenced only" filter in the body of
\* POST /search
TopK == 20
SilenceThreshold == 70

\* data.results of a response of POST /search
ResultSets == {<< >>, <<"r1">>, <<"r2", "r1">>}

\* data of an envelope with success = true: present tells whether
\* data.results can be read
NoPayload == [present |-> FALSE, results |-> << >>]
SearchPayloads ==
  {NoPayload} \cup {[present |-> TRUE, results |-> rs] : rs \in ResultSets}

\* the body of POST /search; << >> stands for null
SearchBody(query, silencedOnly) ==
  [query |-> query, top_k |-> TopK,
   silence_threshold |->
     IF silencedOnly THEN <<SilenceThreshold>> ELSE << >>]

\* what performSearch assigns to the innerHTML of the panel body
Loading == [state |-> "loading", cards |-> << >>]
EmptyState == [state |-> "empty", cards |-> << >>]
ErrorState == [state |-> "error", cards |-> << >>]
RenderResultsAppend(panel, results) ==
  [state |-> "populated", cards |-> panel.cards \o results]
RenderResults(panel, results) ==
  [state |-> "populated", cards |-> results]

\* performSearch() up to its first await, with the text of #searchInput and
\* the state of #silencedOnly
PerformSearch(text, silencedOnly) ==
  /\ Ops < MaxOps
  /\ LET query == Trim(text) IN
     IF ~Truthy(query)
       THEN /\ searches' =
                 Append(searches,
                        [text |-> text, silencedOnly |-> silencedOnly,
                         pc |-> "alert", request |-> << >>,
                         outcome |-> "none", payload |-> NoPayload])
            /\ UNCHANGED searchResults
       ELSE /\ searches' =
                 Append(searches,
                        [text |-> text, silencedOnly |-> silencedOnly,
                         pc |-> "fetch",
                         request |-> <<SearchBody(query, silencedOnly)>>,
                         outcome |-> "none", payload |-> NoPayload])
            /\ searchResults' = Loading
  /\ UNCHANGED <<chatVars, chartVars, dashVars, navVars, reportVars>>

\* click on #searchBtn
ClickSearch(text, silencedOnly) == PerformSearch(text, silencedOnly)

\* Enter in #searchInput
EnterSearch(text, silencedOnly) == PerformSearch(text, silencedOnly)

\* POST /search of call s resolves
SearchResponse(s, outcome, payload) ==
  /\ searches[s].pc = "fetch"
  /\ searches' = [searches EXCEPT ![s].pc = "done", ![s].outcome = outcome,
                                  ![s].payload =
                                     IF outcome = "success" THEN payload
                                                            ELSE NoPayload]
  /\ searchResults' =
       CASE outcome = "network" -> ErrorState
         [] outcome = "backend_error" -> searchResults
         [] outcome = "success" ->
              IF ~payload.present THEN ErrorState
              ELSE IF Len(payload.results) = 0 THEN EmptyState
              ELSE RenderResults(searchResults, payload.results)
  /\ UNCHANGED <<chatVars, chartVars, dashVars, navVars, reportVars>>

\* ------------------------------------------------------------------------
\* Report runner
\* ------------------------------------------------------------------------
\* #runReportBtn while a run is under way and after its finally block
InvestigatingEnabled(btn) == [disabled |-> FALSE, label |-> "Investigating..."]
Investigating(btn) == [disabled |-> TRUE, label |-> "Investigating..."]
Restored(btn) == [disabled |-> FALSE, label |-> RunLabel]

\* click on #runReportBtn, which a disabled button does not dispatch:
\* runFullReport() up to its first await
RunFullReport ==
  /\ ~runBtn.disabled
  /\ Ops < MaxOps
  /\ runBtn' = Investigating(runBtn)
  /\ reportStatus' = "block"
  /\ reportResults' = "none"
  /\ reports' = Append(reports, [pc |-> "fetch", outcome |-> "none",
                                 alerted |-> FALSE])
  /\ UNCHANGED <<reportContent, chatVars, chartVars, dashVars, navVars,
                 searchVars>>

\* POST /agent/investigate of call r resolves; hasReport tells whether
\* result.data.report of an envelope with success = true can be read
ReportResponse(r, outcome, hasReport) ==
  /\ reports[r].pc = "fetch"
  /\ reportStatus' = "none"
  /\ IF outcome = "success"
       THEN /\ reportResults' = "block"
            /\ reportContent' = IF hasReport THEN r ELSE reportContent
            /\ reports' = [reports EXCEPT ![r].pc = "done",
                                          ![r].outcome = outcome,
                                          ![r].alerted = ~hasReport]
       ELSE /\ reports' = [reports EXCEPT ![r].pc = "done",
                                          ![r].outcome = outcome,
                                          ![r].alerted = TRUE]
            /\ UNCHANGED <<reportResults, reportContent>>
  /\ runBtn' = Restored(runBtn)
  /\ UNCHANGED <<chatVars, chartVars, dashVars, navVars, searchVars>>

\* the backend will never answer POST /agent/investigate of call r: the
\* promise of its fetch is never settled
ReportLost(r) ==
  /\ reports[r].pc = "fetch"
  /\ reports' = [reports EXCEPT ![r].pc = "hung"]
  /\ UNCHANGED <<runBtn, reportStatus, reportResults, reportContent, chatVars,
                 chartVars, dashVars, navVars, searchVars>>

\* ------------------------------------------------------------------------
\* Specifications
\* ------------------------------------------------------------------------
\* the session list used where the list itself plays no part
OneList == {<<"s1">>}
\* chat results without chart data
PlainResults == {r \in ChatResults : ~r.chart_data.present}

\* The send protocol: every entry point of sendChatMessage, the response
\* handler and the session-list refresh it awaits.
NextSend ==
  \/ \E text \in Texts : ClickSend(text)
  \/ \E text \in Texts : KeypressEnter(text)
  \/ \E query \in Texts : SendSuggestion(query)
  \/ \E query \in Texts : QuickAnalysis(query)
  \/ QuickTimer
  \/ \E t \in DOMAIN turns, result \in PlainResults : ChatResponse(t, result)
  \/ \E req \in listReqs, outcome \in Outcomes, list \in OneList :
       ListResponse(req, outcome, list)

SpecSend == Init /\ [][NextSend]_vars

\* The chat turn with the dynamic chart: responses with and without chart
\* data, and the close button of the chart panel.
NextChart ==
  \/ \E text \in Texts : ClickSend(text)
  \/ \E t \in DOMAIN turns, result \in ChatResults : ChatResponse(t, result)
  \/ \E req \in listReqs, outcome \in Outcomes, list \in OneList :
       ListResponse(req, outcome, list)
  \/ CloseChart

SpecChart == Init /\ [][NextChart]_vars

\* The chat screen with its session control: sends, session selection,
\* session creation, the history and session-list fetches, clearing.
NextChat ==
  \/ \E text \in Texts : ClickSend(text)
  \/ \E t \in DOMAIN turns, result \in PlainResults : ChatResponse(t, result)
  \/ ClearChat
  \/ \E req \in listReqs, outcome \in Outcomes, list \in SessionLists :
       ListResponse(req, outcome, list)
  \/ \E id \in SessionIds \cup {Placeholder} : SelectSession(id)
  \/ \E h \in DOMAIN histories, outcome \in Outcomes, log \in HistoryLogs :
       HistoryResponse(h, outcome, log)
  \/ \E name \in Names : CreateNewSession(name)
  \/ \E c \in DOMAIN creates, outcome \in Outcomes, sid \in SessionIds :
       CreateResponse(c, outcome, sid)

SpecChat == Init /\ [][NextChat]_vars

\* Navigation and the dashboard / analytics views with their chart slots.
NextDash ==
  \/ \E screenId \in ScreenIds : NavClick(screenId)
  \/ \E outcome \in Outcomes : StatsResponse(outcome)
  \/ \E outcome \in Outcomes, fields \in SUBSET DemoFields :
       OverviewResponse(outcome, fields)
  \/ \E outcome \in Outcomes, data \in DemoPayloads :
       DemographicsResponse(outcome, data)
  \/ \E outcome \in Outcomes : GeographyResponse(outcome)
  \/ \E outcome \in Outcomes, payload \in CategoryPayloads :
       CategoriesResponse(outcome, payload)
  \/ \E outcome \in Outcomes, payload \in TemporalPayloads :
       TemporalResponse(outcome, payload)

SpecDash == Init /\ [][NextDash]_vars

\* The chat turn whose response carries a chart with few or with many
\* labels.
PaletteResults ==
  {[network |-> FALSE, success |-> TRUE, session_id |-> s, chart_data |-> c] :
     s \in {Null, "s1"},
     c \in {WideChartData} \cup {d \in ChartDatas : d.hasLabels}}

NextPalette ==
  \/ \E text \in Texts : ClickSend(text)
  \/ \E t \in DOMAIN turns, result \in PaletteResults :
       ChatResponse(t, result)
  \/ \E req \in listReqs, outcome \in Outcomes, list \in OneList :
       ListResponse(req, outcome, list)
  \/ CloseChart

SpecPalette == Init /\ [][NextPalette]_vars

\* The search screen and the report screen.
NextTools ==
  \/ \E text \in Texts, silencedOnly \in BOOLEAN :
       ClickSearch(text, silencedOnly)
  \/ \E text \in Texts, silencedOnly \in BOOLEAN :
       EnterSearch(text, silencedOnly)
  \/ \E s \in DOMAIN searches, outcome \in Outcomes,
        payload \in SearchPayloads : SearchResponse(s, outcome, payload)
  \/ RunFullReport
  \/ \E r \in DOMAIN reports, outcome \in Outcomes, hasReport \in BOOLEAN :
       ReportResponse(r, outcome, hasReport)
  \/ \E r \in DOMAIN reports : ReportLost(r)

SpecTools == Init /\ [][NextTools]_vars

\* The same with the guarantee of the event loop: the continuation of a
\* fetch that the backend answers is run.
SpecToolsLive ==
  /\ SpecTools
  /\ WF_vars(\E s \in DOMAIN searches, outcome \in Outcomes,
               payload \in SearchPayloads : SearchResponse(s, outcome, payload))
  /\ WF_vars(\E r \in DOMAIN reports, outcome \in Outcomes,
               hasReport \in BOOLEAN : ReportResponse(r, outcome, hasReport))

\* ------------------------------------------------------------------------
\* Properties
\* ------------------------------------------------------------------------
InFlight == {t \in DOMAIN turns : turns[t].pc = "fetch"}

\* the positions of the transcript holding an element of the kinds of turn t
Positions(msgs, t, kinds) ==
  {i \in DOMAIN msgs : msgs[i].turn = t /\ msgs[i].kind \in kinds}

TerminalKinds == {"reply", "error", "connection_error"}

\* C1: a send issued while an earlier send that carried no session id is
\* still awaiting its response is never in flight together with it.
C1_NoConcurrentSends ==
  \A a, b \in DOMAIN turns :
    (a < b /\ turns[a].session_id = Null /\ turns[a].pc = "fetch")
      => turns[b].pc # "fetch"

\* C2: the transcript never holds the reply of a request that was issued
\* under a session id S and whose response arrived when the current session
\* was no longer S.
C2_NoStaleAppend ==
  \A i \in DOMAIN chatMessages :
    (/\ chatMessages[i].kind = "reply"
     /\ turns[chatMessages[i].turn].session_id # Null)
      => ~turns[chatMessages[i].turn].stale

\* C3: at every step the only live instance on the dynamic canvas, if any,
\* is the one bound to dynamicChart, and a render that constructs an
\* instance leaves exactly that instance live and bound.
C3_DynamicSlotOneLive ==
  [][/\ LiveOn(charts', "dynamicChart") \subseteq {dynamicChart'}
     /\ (Len(charts') > Len(charts)
           => /\ dynamicChart' = Len(charts')
              /\ LiveOn(charts', "dynamicChart") = {Len(charts')})]_vars

\* two renders have completed: the first instance is destroyed, the second
\* is live and bound
C3_Witness ==
  \E i, j \in DOMAIN charts :
    /\ i < j
    /\ charts[i].canvas = "dynamicChart" /\ ~charts[i].live
    /\ charts[j].canvas = "dynamicChart" /\ charts[j].live
    /\ dynamicChart = j

\* C4: on every dashboard slot the only live instance, if any, is the one
\* bound to the slot's global, whatever the order in which overlapping
\* refreshes complete.
C4_DashSlotsOneLive ==
  \A slot \in DashSlots : LiveOn(charts, slot) \subseteq {slotChart[slot]}

\* two refreshes of the demographics view have completed on the gender
\* slot while the overview slot is bound too
C4_Witness ==
  /\ \E i, j \in DOMAIN charts :
       /\ i < j
       /\ charts[i].canvas = "genderChart" /\ ~charts[i].live
       /\ charts[j].canvas = "genderChart" /\ charts[j].live
       /\ slotChart["genderChart"] = j
  /\ pending["demographics"] = 0

\* C5: every send that appended a user message and issued a request has a
\* message that is non-empty after trimming.
C5_NoEmptySend ==
  \A t \in DOMAIN turns : Truthy(Trim(turns[t].message))

\* C6: in the transcript the typing indicator of a send comes after the
\* user message of that send, and is never present together with the
\* reply or an error message of that send.
C6_TurnOrdering ==
  \A t \in DOMAIN turns :
    /\ \A i \in Positions(chatMessages, t, {"typing"}) :
         \E j \in Positions(chatMessages, t, {"message"}) : j < i
    /\ Positions(chatMessages, t, {"typing"}) # {}
         => Positions(chatMessages, t, TerminalKinds) = {}

\* a send has run to its end: its reply follows its user message and its
\* typing indicator is gone, while another send still shows its indicator
C6_Witness ==
  \E t, u \in DOMAIN turns :
    /\ turns[t].pc = "done"
    /\ \E i \in Positions(chatMessages, t, {"message"}),
          j \in Positions(chatMessages, t, {"reply"}) : i < j
    /\ Positions(chatMessages, t, {"typing"}) = {}
    /\ Positions(chatMessages, u, {"typing"}) # {}

\* turn t ends in this step with a failure: a network error or an envelope
\* with success = false
FailsNow(t) ==
  /\ t \in DOMAIN turns
  /\ turns[t].pc = "fetch"
  /\ turns'[t].pc = "done"
  /\ "reply" \notin turns'[t].terminal

\* C7: the step in which a send fails removes its typing indicator, appends
\* exactly one error message for it, issues no request, and leaves the
\* current session id as it was; every send carries the current session id.
C7_FailureKeepsSession ==
  [][/\ \A t \in DOMAIN turns :
          FailsNow(t)
            => /\ Positions(chatMessages', t, {"typing"}) = {}
               /\ Cardinality(Positions(chatMessages', t,
                                        {"error", "connection_error"})) = 1
               /\ Cardinality(Positions(chatMessages, t,
                                        {"error", "connection_error"})) = 0
               /\ Len(turns') = Len(turns)
               /\ {u \in DOMAIN turns' : turns'[u].pc = "fetch"} = InFlight \ {t}
               /\ listReqs' = listReqs
               /\ currentSession' = currentSession
     /\ Len(turns') > Len(turns)
          => turns'[Len(turns')].session_id = currentSession]_vars

\* a send issued with an established session failed, and the session is
\* still the current one
C7_Witness ==
  \E t \in DOMAIN turns :
    /\ turns[t].pc = "done"
    /\ turns[t].terminal \in {{"error"}, {"connection_error"}}
    /\ turns[t].session_id # Null
    /\ currentSession = turns[t].session_id

\* C8: a chat response changes the current session id exactly when it is
\* successful, carries a session id and no session is current; the id it
\* carries then becomes current and the reply is appended only by the step
\* that ends the session-list refresh the handler awaits.
C8_AdoptOnlyWhenUnset ==
  [][\A t \in DOMAIN turns, result \in ChatResults :
        ChatResponse(t, result)
          => /\ (currentSession' # currentSession)
                  <=> (/\ ~result.network
                       /\ result.success
                       /\ result.session_id # Null
                       /\ currentSession = Null)
             /\ (currentSession' # currentSession)
                  => /\ currentSession' = result.session_id
                     /\ [kind |-> "send", n |-> t] \in listReqs' \ listReqs
                     /\ Positions(chatMessages', t, {"reply"}) = {}
             /\ (Positions(chatMessages', t, {"reply"}) = {})
                  <=> (currentSession' # currentSession \/ result.network
                         \/ ~result.success)]_vars

\* a response has been adopted and its handler awaits the refresh, and
\* another response found the session already set and appended its reply
C8_Witness ==
  \E t, u \in DOMAIN turns :
    /\ turns[t].pc = "loadSessions"
    /\ currentSession = turns[t].result.session_id
    /\ [kind |-> "send", n |-> t] \in listReqs
    /\ turns[u].pc = "done"
    /\ "reply" \in turns[u].terminal

\* C9: the first message sent after the placeholder was selected, with no
\* session selected or created in between, carries session_id = null.
C9_FreshAfterPlaceholder ==
  [][(freshSince /\ Len(turns') > Len(turns))
       => turns'[Len(turns')].session_id = Null]_vars

\* C10: the step in which the history fetch of a selected session succeeds
\* makes that session current and leaves the transcript holding exactly the
\* fetched messages, in order.
C10_HistoryReplaces ==
  [][\A h \in DOMAIN histories :
        (histories[h].pc = "fetch" /\ histories'[h].pc = "loaded")
          => /\ currentSession' = histories[h].sessionId
             /\ Len(chatMessages') = Len(histories'[h].messages)
             /\ \A i \in DOMAIN chatMessages' :
                  /\ chatMessages'[i].role = histories'[h].messages[i].role
                  /\ chatMessages'[i].content =
                       histories'[h].messages[i].content]_vars

\* a history of two messages has been loaded over a transcript that held a
\* sent message, and is what the transcript shows
C10_Witness ==
  \E h \in DOMAIN histories :
    /\ histories[h].pc = "loaded"
    /\ Len(histories[h].messages) = 2
    /\ Len(chatMessages) = 2
    /\ currentSession = histories[h].sessionId
    /\ turns # << >>

\* C11: when POST /chat/session/new succeeds the returned session id
\* becomes the current session and a refresh of the session list is issued;
\* when it fails, by a network failure or by success = false, the current
\* session id and the transcript stay as they are and the failure is
\* reported.
C11_CreateOutcome ==
  [][\A c \in DOMAIN creates :
       (creates[c].pc = "fetch" /\ creates'[c].pc # "fetch") =>
         IF creates'[c].pc = "loadSessions"
           THEN /\ currentSession' = creates'[c].session_id
                /\ [kind |-> "create", n |-> c] \in listReqs'
           ELSE /\ currentSession' = currentSession
                /\ chatMessages' = chatMessages
                /\ creates'[c].reported # "none"]_vars

\* C12: after every successful refresh of the session list the options of
\* the select are the "New Investigation" placeholder with the empty value
\* followed by the sessions of the response in the order of the response,
\* and nothing of an earlier refresh.
C12_ListReplaced ==
  [][\A req \in listReqs, list \in SessionLists :
       ListResponse(req, "success", list) =>
         sessionSelect'.options = <<Placeholder>> \o list]_vars

\* a refresh awaited by a session creation has run to its end and the select
\* shows two backend sessions after the placeholder
C12_Witness ==
  /\ listReqs = {}
  /\ \E c \in DOMAIN creates : creates[c].pc = "done"
  /\ sessionSelect.options = <<Placeholder, "s2", "s1">>

\* C13: after every click on a nav item exactly one screen is active, and
\* the click issues the fetch of the selected screen's view exactly once
\* and the fetch of no other view.
C13_OneActiveOneRefresh ==
  [][\A screenId \in ScreenIds :
       NavClick(screenId) =>
         /\ Cardinality(screens') = 1
         /\ \A v \in Views :
              pending'[v] =
                pending[v] + (IF v = ScreenView(screenId) THEN 1 ELSE 0)]_vars

\* C14: a click on a nav item whose screen id is unknown leaves the active
\* screen as it was and issues no fetch.
C14_UnknownTolerated ==
  [][NavClick(UnknownScreen) =>
       /\ screens' = screens
       /\ pending' = pending]_vars

ReportsInFlight == {r \in DOMAIN reports : reports[r].pc \in {"fetch", "hung"}}

\* C15: the report trigger is disabled exactly while a run awaits its
\* response, so at most one investigation request is in flight; it is
\* enabled again after every outcome; and the report panel is shown only
\* when the latest run ended with success.
C15_SingleFlight ==
  /\ Cardinality(ReportsInFlight) <= 1
  /\ runBtn.disabled <=> ReportsInFlight # {}
  /\ reportResults = "block" =>
       (reports # << >> /\ reports[Len(reports)].outcome = "success")

\* a second run is in flight after a first one ended with a backend error
C15_Witness ==
  /\ Len(reports) = 2
  /\ reports[1].outcome = "backend_error"
  /\ reports[2].pc = "fetch"
  /\ runBtn.disabled
  /\ reportResults = "none"

\* C16: when a report run is triggered and the backend never responds, the
\* trigger is eventually enabled again and the report panel is not shown.
C16_EventuallyReenabled ==
  (\E r \in DOMAIN reports : reports[r].pc = "hung")
    ~> (~runBtn.disabled /\ reportResults = "none")

PanelStates == {"loading", "empty", "populated", "error"}

\* the search call that ends in this step, if any
SearchEnds(s) == searches[s].pc = "fetch" /\ searches'[s].pc = "done"

\* C17: whatever performSearch writes to the results panel is one of
\* loading, empty, populated and error; a successful response with zero
\* results leaves the panel empty, and one with at least one result leaves
\* it populated with the results of that response only.
C17_PanelStates ==
  [][/\ searchResults' # searchResults =>
          searchResults'.state \in PanelStates
     /\ \A s \in DOMAIN searches :
          (SearchEnds(s) /\ searches'[s].outcome = "success"
             /\ searches'[s].payload.present) =>
            IF searches'[s].payload.results = << >>
              THEN searchResults' = EmptyState
              ELSE searchResults' =
                     [state |-> "populated",
                      cards |-> searches'[s].payload.results]]_vars

\* the panel shows the one result of the second search after the first
\* search had filled it with two
C17_Witness ==
  /\ Len(searches) = 2
  /\ searches[1].pc = "done" /\ searches[1].payload.results = <<"r2", "r1">>
  /\ searches[2].pc = "done" /\ searches[2].payload.results = <<"r1">>
  /\ searchResults = [state |-> "populated", cards |-> <<"r1">>]

\* C18: a search whose request fails, by a network failure or by an
\* envelope with success = false, ends with the panel in the error state,
\* and no search that ends leaves the panel loading.
C18_FailureShowsError ==
  [][\A s \in DOMAIN searches :
       SearchEnds(s) =>
         /\ searches'[s].outcome \in {"network", "backend_error"} =>
              searchResults'.state = "error"
         /\ searchResults'.state # "loading"]_vars

AllSpace(text) == \A i \in DOMAIN text : IsSpace(text[i])

\* C19: a search whose query is empty after trimming shows the prompt,
\* issues no request and leaves the results panel as it was.
C19_EmptyQueryPrompt ==
  [][(Len(searches') = Len(searches) + 1
        /\ AllSpace(searches'[Len(searches')].text)) =>
       /\ searches'[Len(searches')].pc = "alert"
       /\ searches'[Len(searches')].request = << >>
       /\ searchResults' = searchResults]_vars

\* a search with a blank query was answered with the prompt while the panel
\* kept the results of the search before it
C19_Witness ==
  /\ Len(searches) = 2
  /\ searches[1].pc = "done"
  /\ searches[2].text = <<" ">> /\ searches[2].pc = "alert"
  /\ searchResults.state = "populated"

\* C20: the response of a fetch of the categories or of the temporal view
\* that resolves while another screen is active creates, replaces and
\* destroys no chart instance and does not write the findings of the view.
C20_LateResponseDiscarded ==
  [][\A outcome \in Outcomes :
       \/ /\ "categories" \notin screens
          /\ \E payload \in CategoryPayloads :
               CategoriesResponse(outcome, payload)
       \/ /\ "temporal" \notin screens
          /\ \E payload \in TemporalPayloads :
               TemporalResponse(outcome, payload)
       => /\ charts' = charts
          /\ slotChart' = slotChart
          /\ findings' = findings]_vars

\* C21: closeChart hides the panel, destroys the instance bound to the
\* dynamic slot once and unbinds it; applied again, or to an empty slot, it
\* changes nothing: no instance is bound, none is destroyed a second time
\* and the panel stays hidden.
C21_CloseIdempotent ==
  LET once == CloseChartOn(chartPanel, dynamicChart, charts)
      twice == CloseChartOn(once.panel, once.dynamicChart, once.charts)
  IN /\ once.panel = "none"
     /\ once.dynamicChart = 0
     /\ dynamicChart # 0 =>
          /\ ~once.charts[dynamicChart].live
          /\ once.charts[dynamicChart].destroys =
               charts[dynamicChart].destroys + 1
     /\ dynamicChart = 0 => once.charts = charts
     /\ twice = once

\* closeChart has run on a bound instance: the slot is empty, the panel is
\* hidden and the instance has been destroyed once
C21_Witness ==
  /\ chartPanel = "none"
  /\ dynamicChart = 0
  /\ \E i \in DOMAIN charts :
       /\ charts[i].canvas = "dynamicChart"
       /\ ~charts[i].live
       /\ charts[i].destroys = 1

\* the two categories a ratio finding of the demographics view divides
Operands(data, finding) ==
  CASE finding = "gender" -> GenderKeys \subseteq data.by_gender.keys
    [] finding = "income" -> IncomeKeys \subseteq data.by_income.keys
    [] finding = "caste" -> CasteKeys \subseteq data.by_caste.keys

\* C22: after a successful response of the demographics view each of the
\* three ratio findings is rendered if and only if both of its operand
\* categories are in the payload; a missing operand omits that finding
\* only.
C22_FindingsIffOperands ==
  [][\A data \in DemoPayloads :
       DemographicsResponse("success", data) =>
         \A finding \in {"gender", "income", "caste"} :
           finding \in Range(findings'.demoFindings)
             <=> Operands(data, finding)]_vars

\* C23: for every non-empty list of GET /complaint-types the "most ignored"
\* finding is the first element and the "least ignored" finding is the last
\* element of the list as received.
C23_FirstAndLast ==
  [][\A payload \in CategoryPayloads :
       (CategoriesResponse("success", payload) /\ payload.isArray
          /\ payload.items # << >>) =>
         findings'.catFindings =
           <<[most |-> payload.items[1],
              least |-> payload.items[Len(payload.items)]]>>]_vars

\* the findings of a list that came in ascending order of silenced_pct: its
\* first element is shown as the most ignored one
C23_Witness ==
  findings.catFindings =
    <<[most |-> [category |-> "water", silenced_pct |-> 10],
       least |-> [category |-> "roads", silenced_pct |-> 40]]>>

\* C24: every data position i of a dynamic chart has a color, the palette
\* color at position i modulo the length of the palette.
C24_PaletteCycles ==
  \A c \in DOMAIN charts :
    charts[c].canvas = "dynamicChart" =>
      \A i \in DOMAIN charts[c].labels :
        /\ i \in DOMAIN charts[c].backgroundColor
        /\ charts[c].backgroundColor[i] = colors[((i - 1) % Len(colors)) + 1]

\* C25: the step in which a send runs to its end leaves exactly one
\* terminal message of that send in the transcript: its reply or one error
\* message, never both and never neither, also when the chart of the
\* response fails to render.
C25_OneTerminalMessage ==
  [][\A t \in DOMAIN turns :
       (turns[t].pc # "done" /\ turns'[t].pc = "done") =>
         Cardinality(Positions(chatMessages', t, TerminalKinds)) = 1]_vars

\* C26: when session A is selected and then session B, the step in which
\* the later of the two history responses arrives leaves B as the current
\* session and B's history as the transcript, in whichever order the two
\* responses arrive.
C26_LastSelectionWins ==
  [][\A a, b \in DOMAIN histories :
       (/\ a < b
        /\ histories[a].sessionId # histories[b].sessionId
        /\ \E h \in {a, b} : histories[h].pc = "fetch"
        /\ histories'[a].pc = "loaded"
        /\ histories'[b].pc = "loaded") =>
         /\ currentSession' = histories[b].sessionId
         /\ chatMessages' = RenderHistory(<< >>, histories'[b].messages)]_vars

\* C27: the selection of a session and the failure of its history fetch,
\* by a network failure or by success = false, leave the current session
\* id and the transcript as they were.
C27_FailedHistoryFrame ==
  [][/\ \A h \in DOMAIN histories, outcome \in {"network", "backend_error"},
          log \in HistoryLogs :
          HistoryResponse(h, outcome, log) =>
            currentSession' = currentSession /\ chatMessages' = chatMessages
     /\ Len(histories') > Len(histories) =>
          currentSession' = currentSession /\ chatMessages' = chatMessages]_vars

\* the history fetch of a second selection has failed while the session
\* and the transcript of the first selection are still shown
C27_Witness ==
  /\ Len(histories) = 2
  /\ histories[1].pc = "loaded"
  /\ histories[1].messages # << >>
  /\ histories[2].pc = "failed"
  /\ histories[2].sessionId # histories[1].sessionId
  /\ currentSession = histories[1].sessionId
  /\ chatMessages = RenderHistory(<< >>, histories[1].messages)

\* C28: in every reachable state the dynamic chart panel is visible if and
\* only if a live chart instance is bound to the dynamic slot.
C28_PanelIffLiveInstance ==
  chartPanel = "flex" <=> (dynamicChart # 0 /\ charts[dynamicChart].live)

====
